---- MODULE Spec2Model ----
(***************************************************************************)
(* Model of vgt_inference/ditod/imagelist.py: the ImageList container      *)
(* (__len__, __getitem__, to) and its builder ImageList.from_tensors with  *)
(* create_attention_mask.                                                  *)
(*                                                                         *)
(* A tensor of shape (C_1..C_K, H, W) is a record                          *)
(*   [device, lead, planes]                                                *)
(* where lead = <<C_1..C_K>> (shape[:-2]) and planes is the sequence of    *)
(* its prod(lead) spatial planes, each a sequence of H rows of W values.   *)
(* Sequences are 1-based: Python position y is element y+1.                *)
(***************************************************************************)
EXTENDS Integers, Sequences, FiniteSets, TLC

VARIABLES pc, tensors, size_divisibility, pad_value, padding_constraints,
          result, ret

vars == <<pc, tensors, size_divisibility, pad_value, padding_constraints,
          result, ret>>

-----------------------------------------------------------------------------
(* Bounds and input sets of the exploration *)

MaxImages == 2

Leads == {<<>>, <<2>>}
Shapes == {<<8, 20>>, <<16, 33>>, <<33, 20>>}
DivArgs == {0, 16}
PadValues == {0, 9}
Squares == {24}
ConDivs == {1, 16}
Devices == {"cpu", "cuda"}
Indices == (0 - (MaxImages + 1)) .. (MaxImages + 1)

-----------------------------------------------------------------------------
(* Program constants *)

PatchSize == 16
LargeNegVal == -1000000

-----------------------------------------------------------------------------
(* Generic helpers *)

Max(a, b) == IF a >= b THEN a ELSE b
Min(a, b) == IF a <= b THEN a ELSE b

RECURSIVE Prod(_)
Prod(s) == IF s = <<>> THEN 1 ELSE Head(s) * Prod(Tail(s))

RECURSIVE SumSeq(_)
SumSeq(s) == IF s = <<>> THEN 0 ELSE Head(s) + SumSeq(Tail(s))

RECURSIVE SeqsUpTo(_, _)
SeqsUpTo(S, n) ==
    IF n = 0 THEN {<<>>}
    ELSE LET shorter == SeqsUpTo(S, n - 1)
         IN shorter \cup {Append(s, e) : s \in {t \in shorter : Len(t) = n - 1}, e \in S}

(* Tensor.shape[-2], Tensor.shape[-1], Tensor.shape *)
Height(t) == Len(t.planes[1])
Width(t) == Len(t.planes[1][1])
ShapeOf(t) == t.lead \o <<Height(t), Width(t)>>

(* An input image: a CPU tensor whose values depend on the position *)
MkImage(lead, h, w) ==
    [device |-> "cpu",
     lead   |-> lead,
     planes |-> [p \in 1..Prod(lead) |->
                   [y \in 1..h |->
                      [x \in 1..w |-> 1 + ((3 * h + 5 * w + 7 * p + 2 * y + x) % 7)]]]]

Images == {MkImage(l, s[1], s[2]) : l \in Leads, s \in Shapes}

NoConstraints == [given |-> FALSE, dict |-> <<>>]
ConstraintDicts ==
    {[given |-> TRUE, dict |-> d] :
        d \in UNION {[K -> Squares \cup ConDivs] :
                        K \in SUBSET {"square_size", "size_divisibility"}}}
Constraints ==
    {NoConstraints} \cup
    {c \in ConstraintDicts :
        /\ "square_size" \in DOMAIN c.dict => c.dict["square_size"] \in Squares
        /\ "size_divisibility" \in DOMAIN c.dict
              => c.dict["size_divisibility"] \in ConDivs}

(* dict.get(key, default) *)
DictGet(d, key, default) == IF key \in DOMAIN d THEN d[key] ELSE default

-----------------------------------------------------------------------------
(* torch primitives used by the file, by what they do *)

(* Mutant of PadPlane: the fill value is dropped and the default 0 is used *)
PadPlaneZeroFill(plane, right, bottom, value) ==
    LET h == Len(plane)
        w == Len(plane[1])
    IN [y \in 1..(h + bottom) |->
          [x \in 1..(w + right) |->
             IF y <= h /\ x <= w THEN plane[y][x] ELSE 0]]

(* F.pad(plane, [0, right, 0, bottom], value): constant padding at the right *)
(* and bottom; a negative amount removes columns / rows from that side.     *)
PadPlane(plane, right, bottom, value) ==
    LET h == Len(plane)
        w == Len(plane[1])
    IN [y \in 1..(h + bottom) |->
          [x \in 1..(w + right) |->
             IF y <= h /\ x <= w THEN plane[y][x] ELSE value]]

(* Basic slicing plane[:h, :w]: the bounds are clamped to the plane's extent *)
SlicePlane(plane, h, w) ==
    LET hh == Min(h, Len(plane))
        ww == Min(w, Len(plane[1]))
    IN [y \in 1..hh |-> [x \in 1..ww |-> plane[y][x]]]

(* Whether a tensor of shape src can be copy_()'d into one of shape dst:    *)
(* aligned from the last dimension, each src dimension is 1 or equal.       *)
Broadcastable(src, dst) ==
    /\ Len(src) <= Len(dst)
    /\ \A k \in 1..Len(src) :
          LET s == src[Len(src) + 1 - k]
              d == dst[Len(dst) + 1 - k]
          IN s = d \/ s = 1

(* Output extent of F.avg_pool2d along one axis for kernel = stride = k,    *)
(* no padding, ceil_mode False: floor((n - k) / k) + 1.                     *)
PoolOut(n, k) == ((n - (k - 1) - 1) \div k) + 1

(* Sum of one k x k window of a plane; the pooled value is this sum / (k*k) *)
WindowSum(plane, r, c, k) ==
    SumSeq([dy \in 1..k |->
              SumSeq([dx \in 1..k |-> plane[(r - 1) * k + dy][(c - 1) * k + dx]])])

(* Mutant of PyIndexOk: negative indices are rejected *)
PyIndexOkNonNegative(n, idx) == 0 <= idx /\ idx < n

(* Python sequence indexing: a negative index counts from the end *)
PyIndexOk(n, idx) == (0 - n) <= idx /\ idx < n
PyIndex(n, idx) == IF idx < 0 THEN idx + n + 1 ELSE idx + 1

-----------------------------------------------------------------------------
(* create_attention_mask *)

(* Lines 154-157: the validity map of one image padded to max_size *)
PaddedMask(img, max_size) ==
    LET mask == [y \in 1..Height(img) |-> [x \in 1..Width(img) |-> 1]]
    IN PadPlane(mask, max_size[2] - Width(img), max_size[1] - Height(img), 0)

(* Lines 158-160: avg_pool2d raises when an output extent is below 1 *)
PoolFails(max_size, patch_size) ==
    PoolOut(max_size[1], patch_size) < 1 \/ PoolOut(max_size[2], patch_size) < 1

(* Mutant of Threshold: >= 0 in place of > 0 *)
ThresholdNonNegative(windowSum, patch_size) ==
    IF windowSum >= 0 * (patch_size * patch_size) THEN 1 ELSE 0

(* Line 161: (pooled_mask > 0).float(); the mean is WindowSum / patch_size^2 *)
Threshold(windowSum, patch_size) ==
    IF windowSum > 0 * (patch_size * patch_size) THEN 1 ELSE 0

(* Lines 158-167 for one image: pooled, thresholded, flattened row-major,   *)
(* a leading 1 prepended, then (1 - v) * large_neg_val.                     *)
AttentionMask1d(img, max_size, patch_size) ==
    LET padded == PaddedMask(img, max_size)
        oh == PoolOut(max_size[1], patch_size)
        ow == PoolOut(max_size[2], patch_size)
        flat == [n \in 1..(oh * ow) |->
                   Threshold(WindowSum(padded, ((n - 1) \div ow) + 1,
                                       ((n - 1) % ow) + 1, patch_size),
                             patch_size)]
        withCls == <<1>> \o flat
    IN [n \in 1..Len(withCls) |-> (1 - withCls[n]) * LargeNegVal]

(* Lines 149-170 *)
create_attention_mask(ts, max_size, patch_size) ==
    IF PoolFails(max_size, patch_size)
    THEN [status |-> "RuntimeError"]
    ELSE [status |-> "ok",
          mask |-> [device |-> ts[1].device,
                    rows |-> [i \in 1..Len(ts) |->
                                AttentionMask1d(ts[i], max_size, patch_size)]]]

-----------------------------------------------------------------------------
(* ImageList.from_tensors *)

(* Mutant of Validate: the leading dimensions are not compared *)
ValidateNonEmpty(ts) == Len(ts) > 0

(* Lines 85-89 *)
Validate(ts) ==
    /\ Len(ts) > 0
    /\ \A i \in 1..Len(ts) : ts[i].lead = ts[1].lead

(* Lines 91-93 *)
ImageSizes(ts) == [i \in 1..Len(ts) |-> <<Height(ts[i]), Width(ts[i])>>]

RECURSIVE MaxOver(_, _)
MaxOver(sizes, k) ==
    IF Len(sizes) = 1 THEN sizes[1][k]
    ELSE Max(sizes[1][k], MaxOver(Tail(sizes), k))

InputMax(ts) == <<MaxOver(ImageSizes(ts), 1), MaxOver(ImageSizes(ts), 2)>>

(* Lines 95-101 *)
SquareSize(pcs) == IF pcs.given THEN DictGet(pcs.dict, "square_size", 0) ELSE 0

EffectiveDivisibility(sd, pcs) ==
    IF pcs.given /\ "size_divisibility" \in DOMAIN pcs.dict
    THEN pcs.dict["size_divisibility"]
    ELSE sd

(* Lines 105-107 *)
RoundUp(n, stride) == ((n + (stride - 1)) \div stride) * stride

(* Mutant of TargetSize: the divisibility rounding is skipped (elif) when   *)
(* a square size is given                                                   *)
TargetSizeSquareIsFinal(ts, sd, pcs) ==
    LET m0 == <<MaxOver(ImageSizes(ts), 1), MaxOver(ImageSizes(ts), 2)>>
        stride == EffectiveDivisibility(sd, pcs)
    IN IF SquareSize(pcs) > 0
       THEN <<SquareSize(pcs), SquareSize(pcs)>>
       ELSE IF stride > 1
       THEN <<((m0[1] + (stride - 1)) \div stride) * stride,
              ((m0[2] + (stride - 1)) \div stride) * stride>>
       ELSE m0

(* Lines 93-107: max_size as used for padding *)
TargetSize(ts, sd, pcs) ==
    LET m0 == InputMax(ts)
        m1 == IF SquareSize(pcs) > 0
              THEN <<SquareSize(pcs), SquareSize(pcs)>>
              ELSE m0
        stride == EffectiveDivisibility(sd, pcs)
    IN IF stride > 1
       THEN <<RoundUp(m1[1], stride), RoundUp(m1[2], stride)>>
       ELSE m1

(* Lines 116-128: F.pad(tensors[0], padding_size, value).unsqueeze_(0) *)
SinglePath(ts, max_size, pv) ==
    LET img == ts[1]
        right == max_size[2] - Width(img)
        bottom == max_size[1] - Height(img)
    IN [status |-> "ok",
        tensor |-> [device |-> img.device,
                    lead |-> img.lead,
                    data |-> <<[p \in 1..Len(img.planes) |->
                                  PadPlane(img.planes[p], right, bottom, pv)]>>]]

(* Line 143: batched_imgs[i, ..., :h, :w].copy_(img) is possible *)
CopyOk(first, img, max_size) ==
    Broadcastable(ShapeOf(img),
                  first.lead \o <<Min(Height(img), max_size[1]),
                                  Min(Width(img), max_size[2])>>)

(* Lines 138-144 for batch entry i: a pad_value-filled block with img       *)
(* copied (broadcast) into its top-left corner.                             *)
FilledAndCopied(first, img, max_size, pv) ==
    LET src(p, y, x) ==
            img.planes[IF Len(img.planes) = 1 THEN 1 ELSE p]
                      [IF Height(img) = 1 THEN 1 ELSE y]
                      [IF Width(img) = 1 THEN 1 ELSE x]
    IN [p \in 1..Prod(first.lead) |->
          [y \in 1..max_size[1] |->
             [x \in 1..max_size[2] |->
                IF y <= Height(img) /\ x <= Width(img) THEN src(p, y, x) ELSE pv]]]

(* Lines 130-144 *)
GeneralPath(ts, max_size, pv) ==
    IF \E i \in 1..Len(ts) : ~CopyOk(ts[1], ts[i], max_size)
    THEN [status |-> "RuntimeError"]
    ELSE [status |-> "ok",
          tensor |-> [device |-> ts[1].device,
                      lead |-> ts[1].lead,
                      data |-> [i \in 1..Len(ts) |->
                                  FilledAndCopied(ts[1], ts[i], max_size, pv)]]]

(* Lines 116, 130 *)
Batch(ts, max_size, pv) ==
    IF Len(ts) = 1 THEN SinglePath(ts, max_size, pv)
    ELSE GeneralPath(ts, max_size, pv)

(* Lines 129 / 145, 146: the mask, then the ImageList. stage names where   *)
(* an exception left from_tensors.                                          *)
Assemble(ts, max_size, batched) ==
    LET masks == create_attention_mask(ts, max_size, PatchSize)
    IN IF batched.status # "ok"
       THEN [status |-> batched.status, stage |-> "pad"]
       ELSE IF masks.status # "ok"
       THEN [status |-> masks.status, stage |-> "mask"]
       ELSE [status |-> "ok", stage |-> "return",
             il |-> [tensor |-> batched.tensor,
                     padding_mask |-> masks.mask,
                     image_sizes |-> ImageSizes(ts)]]

(* Lines 85-146 *)
from_tensors(ts, sd, pv, pcs) ==
    IF ~Validate(ts)
    THEN [status |-> "AssertionError", stage |-> "validate"]
    ELSE LET max_size == TargetSize(ts, sd, pcs)
         IN Assemble(ts, max_size, Batch(ts, max_size, pv))

-----------------------------------------------------------------------------
(* ImageList methods *)

(* Lines 37-38 *)
ImageListLen(il) == Len(il.image_sizes)

(* Lines 40-51 *)
GetItemOf(il, idx) ==
    IF ~PyIndexOk(Len(il.image_sizes), idx)
    THEN [op |-> "getitem", idx |-> idx, status |-> "IndexError"]
    ELSE LET size == il.image_sizes[PyIndex(Len(il.image_sizes), idx)]
             entry == il.tensor.data[PyIndex(Len(il.tensor.data), idx)]
         IN [op |-> "getitem", idx |-> idx, status |-> "ok",
             value |-> [device |-> il.tensor.device,
                        lead |-> il.tensor.lead,
                        planes |-> [p \in 1..Len(entry) |->
                                      SlicePlane(entry[p], size[1], size[2])]]]

(* Mutant of ToOf: the mask is moved along with the tensor *)
ToOfMovingMask(il, target) ==
    [op |-> "to", target |-> target, status |-> "ok",
     value |-> [tensor |-> [il.tensor EXCEPT !.device = target],
                padding_mask |-> [il.padding_mask EXCEPT !.device = target],
                image_sizes |-> il.image_sizes]]

(* Line 55: Tensor.to(device) *)
TensorTo(t, target) == [t EXCEPT !.device = target]

(* Lines 53-56 *)
ToOf(il, target) ==
    [op |-> "to", target |-> target, status |-> "ok",
     value |-> [tensor |-> TensorTo(il.tensor, target),
                padding_mask |-> il.padding_mask,
                image_sizes |-> il.image_sizes]]

-----------------------------------------------------------------------------
(* The state machine: one from_tensors call, then calls on the result *)

NoCall == [op |-> "none"]
NoResult == [status |-> "none"]

Init ==
    /\ pc = "start"
    /\ tensors = <<>>
    /\ size_divisibility = 0
    /\ pad_value = 0
    /\ padding_constraints = NoConstraints
    /\ result = NoResult
    /\ ret = NoCall

FromTensors ==
    /\ pc = "start"
    /\ \E ts \in SeqsUpTo(Images, MaxImages), sd \in DivArgs, pv \in PadValues,
          pcs \in Constraints :
          /\ tensors' = ts
          /\ size_divisibility' = sd
          /\ pad_value' = pv
          /\ padding_constraints' = pcs
          /\ result' = from_tensors(ts, sd, pv, pcs)
          /\ pc' = IF result'.status = "ok" THEN "built" ELSE "failed"
    /\ UNCHANGED ret

LenCall ==
    /\ pc = "built"
    /\ ret' = [op |-> "len", status |-> "ok", value |-> ImageListLen(result.il)]
    /\ pc' = "called"
    /\ UNCHANGED <<tensors, size_divisibility, pad_value, padding_constraints,
                   result>>

GetItem ==
    /\ pc = "built"
    /\ \E idx \in Indices : ret' = GetItemOf(result.il, idx)
    /\ pc' = "called"
    /\ UNCHANGED <<tensors, size_divisibility, pad_value, padding_constraints,
                   result>>

To ==
    /\ pc = "built"
    /\ \E target \in Devices : ret' = ToOf(result.il, target)
    /\ pc' = "called"
    /\ UNCHANGED <<tensors, size_divisibility, pad_value, padding_constraints,
                   result>>

(* The caller drops the returned value; the ImageList stays usable *)
Discard ==
    /\ pc = "called"
    /\ ret' = NoCall
    /\ pc' = "built"
    /\ UNCHANGED <<tensors, size_divisibility, pad_value, padding_constraints,
                   result>>

Next == FromTensors \/ LenCall \/ GetItem \/ To \/ Discard

Spec == Init /\ [][Next]_vars

-----------------------------------------------------------------------------
(* Vocabulary of the properties *)

(* from_tensors has returned an ImageList and no call on it is pending;    *)
(* the calls leave result unchanged, so these states hold every list built *)
Returned == pc = "built"
Called == pc # "start"
NumImages == Len(tensors)
TheList == result.il
BatchH == Len(TheList.tensor.data[1][1])
BatchW == Len(TheList.tensor.data[1][1][1])
Sq == SquareSize(padding_constraints)
EffDiv == EffectiveDivisibility(size_divisibility, padding_constraints)
Target == TargetSize(tensors, size_divisibility, padding_constraints)

(* m is the least multiple of d that is >= n *)
LeastMultipleAtLeast(m, n, d) == m % d = 0 /\ m >= n /\ m - d < n

-----------------------------------------------------------------------------
(* C1. Round trip: for every index i in 0..N-1 of a list built from a      *)
(* valid input, from_tensors(images)[i] has the shape and the values of     *)
(* images[i]. Stated as claimed; the code violates it.                      *)
C1_RoundTrip ==
    (pc = "called" /\ ret.op = "getitem" /\ ret.idx \in 0..(NumImages - 1))
        => /\ ret.status = "ok"
           /\ ret.value.lead = tensors[ret.idx + 1].lead
           /\ ret.value.planes = tensors[ret.idx + 1].planes

-----------------------------------------------------------------------------
(* C2 as claimed: with square_size > 0 both padded dimensions are exactly   *)
(* square_size whatever the size_divisibility; otherwise the componentwise  *)
(* maximum, rounded up to the effective divisibility when that is > 1.      *)
C2_TargetAsClaimed ==
    Returned =>
        IF Sq > 0
        THEN BatchH = Sq /\ BatchW = Sq
        ELSE IF EffDiv > 1
        THEN /\ LeastMultipleAtLeast(BatchH, InputMax(tensors)[1], EffDiv)
             /\ LeastMultipleAtLeast(BatchW, InputMax(tensors)[2], EffDiv)
        ELSE <<BatchH, BatchW>> = InputMax(tensors)

(* C2 amended: the base size is square_size in both dimensions when         *)
(* square_size > 0 and the componentwise maximum otherwise; the padded      *)
(* dimensions are the base rounded up to the next multiple of the effective *)
(* size_divisibility when that is > 1, and exactly the base otherwise.      *)
C2_TargetAmended ==
    Returned =>
        LET base == IF Sq > 0 THEN <<Sq, Sq>> ELSE InputMax(tensors)
        IN IF EffDiv > 1
           THEN /\ LeastMultipleAtLeast(BatchH, base[1], EffDiv)
                /\ LeastMultipleAtLeast(BatchW, base[2], EffDiv)
           ELSE <<BatchH, BatchW>> = base

(* C2 witness: a list was built with a square size that is no multiple of   *)
(* the effective divisibility, which came from the constraints.             *)
C2_Witness ==
    /\ Returned
    /\ Sq > 0
    /\ EffDiv > 1
    /\ Sq % EffDiv # 0
    /\ EffDiv # size_divisibility
    /\ BatchH > Sq

-----------------------------------------------------------------------------
(* C3. Size invariant: every image_sizes[i] is componentwise <= the last    *)
(* two dimensions of the batched tensor. Stated as claimed; the code        *)
(* violates it when square_size is smaller than an image.                   *)
C3_SizeInvariant ==
    Returned =>
        \A i \in 1..Len(TheList.image_sizes) :
            /\ TheList.image_sizes[i][1] <= BatchH
            /\ TheList.image_sizes[i][2] <= BatchW

-----------------------------------------------------------------------------
(* C4. Mask shape: for every valid input whose padding to (Hmax, Wmax)      *)
(* succeeded, from_tensors returns a mask of shape                          *)
(* (N, 1 + floor(Hmax/16) * floor(Wmax/16)) whose column 0 is 0, also when  *)
(* Hmax or Wmax is below the patch size. Stated as claimed; the code        *)
(* violates it.                                                             *)
C4_MaskShape ==
    (Called /\ Validate(tensors) /\ result.stage # "pad") =>
        /\ result.status = "ok"
        /\ Len(TheList.padding_mask.rows) = NumImages
        /\ \A i \in 1..NumImages :
              /\ Len(TheList.padding_mask.rows[i])
                    = 1 + (Target[1] \div PatchSize) * (Target[2] \div PatchSize)
              /\ TheList.padding_mask.rows[i][1] = 0

-----------------------------------------------------------------------------
(* C5. Mask content: every entry of row i is 0 or -1000000, and the entry   *)
(* of patch block (r, c), at row-major position 1 + r*floor(Wmax/16) + c,   *)
(* is 0 exactly when r*16 < h_i and c*16 < w_i, and -1000000 otherwise.     *)
C5_MaskContent ==
    Returned =>
        LET bh == BatchH \div 16
            bw == BatchW \div 16
        IN \A i \in 1..NumImages :
              LET row == TheList.padding_mask.rows[i]
                  h == Height(tensors[i])
                  w == Width(tensors[i])
              IN /\ \A n \in 1..Len(row) : row[n] \in {0, -1000000}
                 /\ \A r \in 0..(bh - 1), c \in 0..(bw - 1) :
                       /\ (row[1 + r * bw + c + 1] = 0)
                              <=> (r * 16 < h /\ c * 16 < w)
                       /\ (row[1 + r * bw + c + 1] = -1000000)
                              <=> ~(r * 16 < h /\ c * 16 < w)

(* C5 witness: a built list whose grid has at least 2 x 2 blocks, where one *)
(* row of the mask holds a valid block after the first and a masked block. *)
C5_Witness ==
    /\ Returned
    /\ BatchH \div 16 >= 2
    /\ BatchW \div 16 >= 2
    /\ \E i \in 1..NumImages :
          LET row == TheList.padding_mask.rows[i]
          IN /\ \E n \in 3..Len(row) : row[n] = 0
             /\ \E n \in 2..Len(row) : row[n] = -1000000

-----------------------------------------------------------------------------
(* C6. Padding geometry: the batched tensor has shape (N, ..., Hmax, Wmax); *)
(* at every position (y, x) of the padded grid it holds images[i] at (y, x) *)
(* when y < h_i and x < w_i and pad_value everywhere else, so padding is    *)
(* only at the bottom and right.                                            *)
C6_PaddingGeometry ==
    Returned =>
        LET t == TheList.tensor
        IN /\ Len(t.data) = NumImages
           /\ t.lead = tensors[1].lead
           /\ \A i \in 1..NumImages :
                 /\ Len(t.data[i]) = Prod(tensors[1].lead)
                 /\ \A p \in 1..Len(t.data[i]) :
                       /\ Len(t.data[i][p]) = Target[1]
                       /\ \A y \in 1..Target[1] :
                             /\ Len(t.data[i][p][y]) = Target[2]
                             /\ \A x \in 1..Target[2] :
                                   t.data[i][p][y][x] =
                                      IF y <= Height(tensors[i]) /\ x <= Width(tensors[i])
                                      THEN tensors[i].planes[p][y][x]
                                      ELSE pad_value

(* C6 witness: a built batch of two images of different sizes, several      *)
(* leading planes and a non-zero pad value, with padding actually present.  *)
C6_Witness ==
    /\ Returned
    /\ NumImages = 2
    /\ pad_value # 0
    /\ Len(TheList.tensor.data[1]) > 1
    /\ Height(tensors[1]) < BatchH
    /\ Width(tensors[2]) < BatchW
    /\ TheList.tensor.data[1][2][BatchH][BatchW] = pad_value

-----------------------------------------------------------------------------
(* C7. Path equivalence: for every single image and every configuration,    *)
(* the general path applied to the one-element input gives the result the   *)
(* single-image path gave. Stated as claimed; the code violates it.         *)
C7_PathEquivalence ==
    (Called /\ NumImages = 1 /\ Validate(tensors)) =>
        result = Assemble(tensors, Target, GeneralPath(tensors, Target, pad_value))

-----------------------------------------------------------------------------
(* C8 as claimed: indexing succeeds exactly for 0 <= i < N; every i < 0 and *)
(* every i >= N fails with an out-of-range error.                           *)
C8_IndexRangeAsClaimed ==
    (pc = "called" /\ ret.op = "getitem") =>
        IF 0 <= ret.idx /\ ret.idx < NumImages
        THEN ret.status = "ok"
        ELSE ret.status = "IndexError"

(* C8 amended: indexing fails with an out-of-range error exactly for        *)
(* i >= N and i < -N; an index in -N..-1 returns the sub-array that index   *)
(* N + i returns, and only indices in -N..N-1 return a sub-array.           *)
C8_IndexRangeAmended ==
    (pc = "called" /\ ret.op = "getitem") =>
        /\ (ret.status = "IndexError")
              <=> (ret.idx >= NumImages \/ ret.idx < 0 - NumImages)
        /\ (ret.status = "ok")
              <=> (0 - NumImages <= ret.idx /\ ret.idx < NumImages)
        /\ ret.status = "ok" =>
              LET k == IF ret.idx < 0 THEN NumImages + ret.idx ELSE ret.idx
                  size == TheList.image_sizes[k + 1]
              IN /\ ret.value.lead = TheList.tensor.lead
                 /\ ret.value.planes =
                       [p \in 1..Len(TheList.tensor.data[k + 1]) |->
                          [y \in 1..Min(size[1], BatchH) |->
                             [x \in 1..Min(size[2], BatchW) |->
                                TheList.tensor.data[k + 1][p][y][x]]]]
        /\ ret.status = "IndexError" => "value" \notin DOMAIN ret

(* C8 witness: index -1 of a two-image list returned the last image, whose  *)
(* size differs from the first one's.                                       *)
C8_Witness ==
    /\ pc = "called"
    /\ ret.op = "getitem"
    /\ ret.idx = -1
    /\ ret.status = "ok"
    /\ NumImages = 2
    /\ Len(ret.value.planes[1]) = Height(tensors[2])
    /\ Height(tensors[2]) # Height(tensors[1])

-----------------------------------------------------------------------------
(* C9. Input validation: from_tensors on an empty list, or on a list in     *)
(* which some image's leading dimensions differ from the first image's,     *)
(* fails in the validation, before padding and mask computation, and        *)
(* returns no ImageList.                                                    *)
C9_InputValidation ==
    (Called /\ (NumImages = 0
                  \/ \E i \in 1..NumImages : tensors[i].lead # tensors[1].lead)) =>
        /\ pc = "failed"
        /\ result.status = "AssertionError"
        /\ result.stage = "validate"
        /\ "il" \notin DOMAIN result
        /\ ret = NoCall

(* C9 witness: a failed call on two images whose leading dimensions differ  *)
(* although their spatial sizes agree.                                      *)
C9_Witness ==
    /\ pc = "failed"
    /\ NumImages = 2
    /\ tensors[1].lead # tensors[2].lead
    /\ Height(tensors[1]) = Height(tensors[2])
    /\ Width(tensors[1]) = Width(tensors[2])
    /\ result.status = "AssertionError"

-----------------------------------------------------------------------------
(* C10. Device transfer frame: to(target) returns a new ImageList whose     *)
(* tensor is the original's moved to target, whose image_sizes and          *)
(* padding_mask (not moved) are the original's and whose length is the      *)
(* original's; the original is still what from_tensors returned.            *)
C10_ToFrame ==
    (pc = "called" /\ ret.op = "to") =>
        /\ ret.value.tensor.device = ret.target
        /\ ret.value.tensor.lead = TheList.tensor.lead
        /\ ret.value.tensor.data = TheList.tensor.data
        /\ ret.value.image_sizes = TheList.image_sizes
        /\ ret.value.padding_mask = TheList.padding_mask
        /\ Len(ret.value.image_sizes) = Len(TheList.image_sizes)
        /\ result = from_tensors(tensors, size_divisibility, pad_value,
                                 padding_constraints)
        /\ TheList.tensor.device = "cpu"

(* C10 witness: a list was moved to another device than the one its tensor  *)
(* and mask were built on.                                                  *)
C10_Witness ==
    /\ pc = "called"
    /\ ret.op = "to"
    /\ ret.target = "cuda"
    /\ ret.value.tensor.device = "cuda"
    /\ TheList.tensor.device = "cpu"
    /\ ret.value.padding_mask.device = "cpu"
    /\ Len(ret.value.image_sizes) = 2

====
